---- MODULE Spec2Model ----
(***************************************************************************)
(* A model of src/data/skiplist.rs: the skip list SkipList with its head   *)
(* sentinel, the descent find_greater_or_eq, the height sampler            *)
(* calculate_random_height, and the operations insert, get and contain.    *)
(*                                                                         *)
(* The heap of Rc<RefCell<SkipListNode>> cells is an arena: node 0 is the  *)
(* head sentinel, nodes 1..n are the entries in order of allocation.  A    *)
(* forward slot holds a node id or None.  Levels are 0-based, as in the    *)
(* code (level = h - 1).  Option<Bytes> is a sequence of length <= 1.      *)
(***************************************************************************)
EXTENDS Integers, Sequences, FiniteSets, TLC

\* ------------------------------------------------------------ constants
MAX_HEIGHT == 12
BRANCH_FACTOR == 4

\* ------------------------------------------------------------ bounds
\* Spec draws random streams with 0..MaxLucky lucky trials, and the all-lucky one
MaxLucky == 1
\* the readers of SpecConc
NumReaders == 2

\* ------------------------------------------------------------ inputs
\* keys: the empty string (a prefix of every key), and two keys that differ in
\* their first byte, the longer one the smaller
Keys == {<<>>, <<1, 2>>, <<2>>}
Values == {<<7>>, <<8>>}
\* the values random::<usize>() is drawn from: two multiples of BRANCH_FACTOR, one not
Draws == {0, 1, BRANCH_FACTOR}

\* ------------------------------------------------------------ state
VARIABLES
    key,            \* node id -> its key (Bytes)
    value,          \* node id -> its value (Bytes)
    next,           \* node id -> level -> node id or None
    current_height, \* SkipList.current_height
    fault,          \* "none", or the panic that ended the process
    last,           \* the last call: its name, arguments and what it returned
    inserted,       \* history: key -> value of every insert that returned
    tower,          \* history: entry -> the height sampled at its creation
    rnd,            \* SpecHeight: the stream of random draws
    sample,         \* SpecHeight: what calculate_random_height returned on rnd
    rc,             \* SpecConc: node id -> Rc strong count
    bflag,          \* SpecConc: node id -> RefCell borrow flag
    reader,         \* SpecConc: reader -> its position in get
    walk            \* SpecLoops: the position in the running loop

vars == <<key, value, next, current_height, fault, last, inserted, tower,
          rnd, sample, rc, bflag, reader, walk>>

None == -1
head == 0
Levels == 0 .. (MAX_HEIGHT - 1)

NoneOpt == <<>>
Some(v) == <<v>>

\* The map as one value: what &self denotes.
Self == [key |-> key, value |-> value, next |-> next, current_height |-> current_height]

\* The entries allocated so far.
Entries(m) == DOMAIN m.key \ {head}

\* ------------------------------------------------------------ Bytes::cmp
RECURSIVE CmpFrom(_, _, _)
CmpFrom(a, b, i) ==
    IF i > Len(a) /\ i > Len(b) THEN "Equal"
    ELSE IF i > Len(a) THEN "Less"
    ELSE IF i > Len(b) THEN "Greater"
    ELSE IF a[i] < b[i] THEN "Less"
    ELSE IF a[i] > b[i] THEN "Greater"
    ELSE CmpFrom(a, b, i + 1)

\* lexicographic, byte by byte; a proper prefix is smaller
cmp(a, b) == CmpFrom(a, b, 1)

\* ------------------------------------------------------------ SkipList::new
EmptyNext == [l \in Levels |-> None]

new == [key |-> (head :> <<>>), value |-> (head :> <<>>),
        next |-> (head :> EmptyNext), current_height |-> 1]

\* ------------------------------------------------------------ less_than_eq
\* an equal key counted as greater: the match arm of line 52 taken for Equal too
less_than_eq_strict(m, k, opt_node) ==
    IF opt_node = None THEN TRUE
    ELSE cmp(k, m.key[opt_node]) = "Less"

\* the is_none test of line 46 answering false
less_than_eq_none_false(m, k, opt_node) ==
    IF opt_node = None THEN FALSE
    ELSE cmp(k, m.key[opt_node]) # "Greater"

\* the comparison of line 50 taken the other way round, node against key
less_than_eq_flipped(m, k, opt_node) ==
    IF opt_node = None THEN TRUE
    ELSE cmp(k, m.key[opt_node]) # "Less"

less_than_eq(m, k, opt_node) ==
    IF opt_node = None THEN TRUE
    ELSE cmp(k, m.key[opt_node]) # "Greater"


\* ------------------------------------------------------------ find_greater_or_eq
\* The loop of lines 61-72 has no bound of its own; the model gives it fuel, and
\* a descent that uses it up has not returned ("diverge").
Fuel(m) == 2 * (Cardinality(Entries(m)) + MAX_HEIGHT) + 2

Descent(f, found, prevs, steps) ==
    [fault |-> f, found |-> found, prev_nodes_by_levels |-> prevs, steps |-> steps]

\* a level whose chain has ended taken for the end of the base chain: the
\* descent returns None from the level it is at
RECURSIVE DescentLoop_stop_at_none(_, _, _, _, _, _)
DescentLoop_stop_at_none(m, k, level, current_node, prevs, steps) ==
    IF steps >= Fuel(m) THEN Descent("diverge", None, prevs, steps)
    ELSE IF level \notin DOMAIN m.next[current_node] THEN Descent("index", None, prevs, steps)
    ELSE LET next_node_opt == m.next[current_node][level] IN
         IF less_than_eq(m, k, next_node_opt)
         THEN LET recorded == [prevs EXCEPT ![level] = current_node] IN
              IF level = 0 \/ next_node_opt = None
              THEN Descent("none", next_node_opt, recorded, steps + 1)
              ELSE DescentLoop_stop_at_none(m, k, level - 1, current_node, recorded,
                                            steps + 1)
         ELSE IF next_node_opt = None THEN Descent("unwrap", None, prevs, steps)
         ELSE DescentLoop_stop_at_none(m, k, level, next_node_opt, prevs, steps + 1)

\* line 64 run only on the way out, at level 0
RECURSIVE DescentLoop_record_last(_, _, _, _, _, _)
DescentLoop_record_last(m, k, level, current_node, prevs, steps) ==
    IF steps >= Fuel(m) THEN Descent("diverge", None, prevs, steps)
    ELSE IF level \notin DOMAIN m.next[current_node] THEN Descent("index", None, prevs, steps)
    ELSE LET next_node_opt == m.next[current_node][level] IN
         IF less_than_eq(m, k, next_node_opt)
         THEN IF level = 0
              THEN Descent("none", next_node_opt, [prevs EXCEPT ![level] = current_node],
                           steps + 1)
              ELSE DescentLoop_record_last(m, k, level - 1, current_node, prevs, steps + 1)
         ELSE IF next_node_opt = None THEN Descent("unwrap", None, prevs, steps)
         ELSE DescentLoop_record_last(m, k, level, next_node_opt, prevs, steps + 1)

RECURSIVE DescentLoop(_, _, _, _, _, _)
DescentLoop(m, k, level, current_node, prevs, steps) ==
    IF steps >= Fuel(m) THEN Descent("diverge", None, prevs, steps)
    \* line 62: next[level] indexes a Vec of MAX_HEIGHT slots
    ELSE IF level \notin DOMAIN m.next[current_node] THEN Descent("index", None, prevs, steps)
    ELSE LET next_node_opt == m.next[current_node][level] IN
         IF less_than_eq(m, k, next_node_opt)
         THEN LET recorded == [prevs EXCEPT ![level] = current_node] IN
              IF level = 0 THEN Descent("none", next_node_opt, recorded, steps + 1)
              ELSE DescentLoop(m, k, level - 1, current_node, recorded, steps + 1)
         \* line 71: unwrap of the next node
         ELSE IF next_node_opt = None THEN Descent("unwrap", None, prevs, steps)
         ELSE DescentLoop(m, k, level, next_node_opt, prevs, steps + 1)

\* the head's own key compared with the target before the walk starts
find_greater_or_eq_head_match(m, k) ==
    LET prevs == [l \in Levels |-> head] IN
    IF m.current_height < 1 THEN Descent("underflow", None, prevs, 0)
    ELSE IF cmp(k, m.key[head]) = "Equal" THEN Descent("none", head, prevs, 0)
    ELSE DescentLoop(m, k, m.current_height - 1, head, prevs, 0)

find_greater_or_eq(m, k) ==
    LET prevs == [l \in Levels |-> head] IN
    \* line 59: usize subtraction; at 0 a debug build panics on the overflow and a
    \* release build wraps and panics on the index
    IF m.current_height < 1 THEN Descent("underflow", None, prevs, 0)
    ELSE DescentLoop(m, k, m.current_height - 1, head, prevs, 0)

\* ------------------------------------------------------------ calculate_random_height
\* stream[i] is the i-th value random::<usize>() returns; the result is the
\* height and the number of draws made.
\* the bound of line 78 tested with > for >=
RECURSIVE SampleLoop_past_max(_, _, _)
SampleLoop_past_max(stream, height, trials) ==
    IF height > MAX_HEIGHT THEN [height |-> height, trials |-> trials]
    ELSE IF stream[trials + 1] % BRANCH_FACTOR # 0
         THEN [height |-> height, trials |-> trials + 1]
         ELSE SampleLoop_past_max(stream, height + 1, trials + 1)

RECURSIVE SampleLoop(_, _, _)
SampleLoop(stream, height, trials) ==
    IF height >= MAX_HEIGHT THEN [height |-> height, trials |-> trials]
    ELSE IF stream[trials + 1] % BRANCH_FACTOR # 0
         THEN [height |-> height, trials |-> trials + 1]
         ELSE SampleLoop(stream, height + 1, trials + 1)

calculate_random_height(stream) == SampleLoop(stream, 1, 0)

\* ------------------------------------------------------------ insert
Min(a, b) == IF a <= b THEN a ELSE b

\* lines 93-99: iter_mut().skip(current_height).take(height) visits the slots
\* current_height .. current_height + height - 1 that exist
\* the skip of line 95 left out: the slots from level 0 up are set to the head
ExpandLevels_unskipped(m, prevs, height) ==
    [l \in Levels |-> IF l < Min(height, MAX_HEIGHT) THEN head ELSE prevs[l]]

ExpandLevels(m, prevs, height) ==
    [l \in Levels |->
        IF l >= m.current_height /\ l < Min(m.current_height + height, MAX_HEIGHT)
        THEN head ELSE prevs[l]]

\* lines 105-106 at one level: the new node takes over the predecessor's
\* successor, then the predecessor points at the new node
\* line 105 left out: the new node never takes over the successor
SpliceLevel_drop_successor(nx, p, new_node, level) ==
    [nx EXCEPT ![p][level] = new_node]

\* lines 105 and 106 in the other order: the predecessor is repointed first
SpliceLevel_swapped(nx, p, new_node, level) ==
    LET repointed == [nx EXCEPT ![p][level] = new_node]
    IN [repointed EXCEPT ![new_node][level] = repointed[p][level]]

SpliceLevel(nx, p, new_node, level) ==
    LET linked == [nx EXCEPT ![new_node][level] = nx[p][level]]
    IN [linked EXCEPT ![p][level] = new_node]

\* the range of line 103 without its upper end, 1..height
RECURSIVE SpliceLoop_exclusive(_, _, _, _, _)
SpliceLoop_exclusive(nx, prevs, new_node, h, height) ==
    IF h >= height THEN [fault |-> "none", next |-> nx]
    ELSE LET level == h - 1 IN
         IF level \notin DOMAIN prevs \/ level \notin DOMAIN nx[new_node]
         THEN [fault |-> "index", next |-> nx]
         ELSE IF prevs[level] = new_node THEN [fault |-> "borrow", next |-> nx]
         ELSE SpliceLoop_exclusive(SpliceLevel(nx, prevs[level], new_node, level),
                                   prevs, new_node, h + 1, height)

\* lines 103-107, from h to height; nx is the forward slots of all nodes
RECURSIVE SpliceLoop(_, _, _, _, _)
SpliceLoop(nx, prevs, new_node, h, height) ==
    IF h > height THEN [fault |-> "none", next |-> nx]
    ELSE LET level == h - 1 IN
         IF level \notin DOMAIN prevs \/ level \notin DOMAIN nx[new_node]
         THEN [fault |-> "index", next |-> nx]
         \* line 105 holds prev's borrow() while it takes new_node's borrow_mut()
         ELSE IF prevs[level] = new_node THEN [fault |-> "borrow", next |-> nx]
         ELSE SpliceLoop(SpliceLevel(nx, prevs[level], new_node, level),
                         prevs, new_node, h + 1, height)

\* line 98 run outside the test of line 93
RaisedHeight_assigned(m, height) == height

\* line 98 left out
RaisedHeight_kept(m, height) == m.current_height

\* lines 93 and 98
RaisedHeight(m, height) ==
    IF height > m.current_height THEN height ELSE m.current_height

InsertResult(f, m, height, new_node, prevs) ==
    [fault |-> f, map |-> m, height |-> height, new_node |-> new_node,
     prev_nodes_by_levels |-> prevs]

\* lines 91-107: the key is not in the map; d is what the descent returned
InsertFresh(m, k, v, stream, d) ==
    LET height == calculate_random_height(stream).height
        prevs == IF height > m.current_height
                 THEN ExpandLevels(m, d.prev_nodes_by_levels, height)
                 ELSE d.prev_nodes_by_levels
        new_node == Cardinality(Entries(m)) + 1
        allocated == m.next @@ (new_node :> EmptyNext)
        s == SpliceLoop(allocated, prevs, new_node, 1, height)
    IN InsertResult(s.fault,
           [key |-> m.key @@ (new_node :> k),
            value |-> m.value @@ (new_node :> v),
            next |-> s.next,
            current_height |-> RaisedHeight(m, height)],
           height, new_node, prevs)

\* the duplicate check of lines 88-90 left out
insert_unchecked(m, k, v, stream) ==
    LET d == find_greater_or_eq(m, k) IN
    IF d.fault # "none" THEN InsertResult(d.fault, m, 0, None, d.prev_nodes_by_levels)
    ELSE InsertFresh(m, k, v, stream, d)

\* a key that is present gets the new value instead of the panic of line 89
insert_upsert(m, k, v, stream) ==
    LET d == find_greater_or_eq(m, k) IN
    IF d.fault # "none" THEN InsertResult(d.fault, m, 0, None, d.prev_nodes_by_levels)
    ELSE IF d.found # None /\ cmp(k, m.key[d.found]) = "Equal"
    THEN InsertResult("none", [m EXCEPT !.value[d.found] = v], 0, None,
                      d.prev_nodes_by_levels)
    ELSE InsertFresh(m, k, v, stream, d)

insert(m, k, v, stream) ==
    LET d == find_greater_or_eq(m, k) IN
    IF d.fault # "none" THEN InsertResult(d.fault, m, 0, None, d.prev_nodes_by_levels)
    ELSE IF d.found # None /\ cmp(k, m.key[d.found]) = "Equal"
    \* line 89: panic!("Same keys are not allowed here")
    THEN InsertResult("duplicate", m, 0, None, d.prev_nodes_by_levels)
    ELSE InsertFresh(m, k, v, stream, d)

\* ------------------------------------------------------------ get, contain
GetResult(f, got) == [fault |-> f, got |-> got]

\* the key comparison of line 119 left out
get_any_found(m, k) ==
    LET d == find_greater_or_eq(m, k) IN
    IF d.fault # "none" THEN GetResult(d.fault, NoneOpt)
    ELSE IF d.found # None
         THEN GetResult("none", Some(m.value[d.found]))
         ELSE GetResult("none", NoneOpt)

get(m, k) ==
    LET d == find_greater_or_eq(m, k) IN
    IF d.fault # "none" THEN GetResult(d.fault, NoneOpt)
    ELSE IF d.found # None /\ cmp(k, m.key[d.found]) = "Equal"
         THEN GetResult("none", Some(m.value[d.found]))
         ELSE GetResult("none", NoneOpt)

contain(m, k) ==
    LET g == get(m, k) IN [fault |-> g.fault, has |-> g.got # NoneOpt]

\* ------------------------------------------------------------ the calls
Call(op, k, v, height, got, has) ==
    [op |-> op, key |-> k, val |-> v, height |-> height, got |-> got, has |-> has]

NoSample == [height |-> 0, trials |-> 0]

\* The random streams Spec draws: l lucky draws and then an unlucky one, for
\* l in 0..MaxLucky, and the stream whose every draw is lucky.
LuckyStream(l) ==
    [i \in 1 .. MAX_HEIGHT |->
        IF i <= l THEN (IF i % 2 = 0 THEN 0 ELSE BRANCH_FACTOR) ELSE 1]

SpecStreams ==
    {LuckyStream(l) : l \in 0 .. Min(MaxLucky, MAX_HEIGHT)} \cup {LuckyStream(MAX_HEIGHT)}

IdleConc ==
    /\ rc = <<>>
    /\ bflag = <<>>
    /\ reader = <<>>

\* no loop is running
IdleWalk ==
    [pc |-> "idle", key |-> <<>>, level |-> 0, current_node |-> head, found |-> None,
     prev_nodes_by_levels |-> [l \in Levels |-> head], steps |-> 0,
     stream |-> <<>>, height |-> 0, trials |-> 0]

Init ==
    /\ key = new.key
    /\ value = new.value
    /\ next = new.next
    /\ current_height = new.current_height
    /\ fault = "none"
    /\ last = Call("new", <<>>, <<>>, 0, NoneOpt, FALSE)
    /\ inserted = <<>>
    /\ tower = <<>>
    /\ walk = IdleWalk
    /\ rnd = <<>>
    /\ sample = NoSample
    /\ IdleConc

\* A panic unwinds out of the call and ends the process: nothing runs after it.
Running == fault = "none"

Insert(k, v, stream) ==
    /\ Running
    /\ \E r \in {insert(Self, k, v, stream)} :
        /\ key' = r.map.key
        /\ value' = r.map.value
        /\ next' = r.map.next
        /\ current_height' = r.map.current_height
        /\ fault' = r.fault
        /\ last' = Call("insert", k, v, r.height, NoneOpt, FALSE)
        /\ inserted' = IF r.fault = "none" THEN inserted @@ (k :> v) ELSE inserted
        /\ tower' = IF r.fault = "none" THEN tower @@ (r.new_node :> r.height) ELSE tower
    /\ UNCHANGED <<rnd, sample, rc, bflag, reader, walk>>

\* a lookup that creates the entry it misses, as an index-or-insert would
Get_or_insert(k) ==
    /\ Running
    /\ \E r \in {get(Self, k)}, i \in {insert(Self, k, <<>>, LuckyStream(0))} :
        /\ fault' = r.fault
        /\ last' = Call("get", k, <<>>, 0, r.got, FALSE)
        /\ key' = IF r.got = NoneOpt THEN i.map.key ELSE key
        /\ value' = IF r.got = NoneOpt THEN i.map.value ELSE value
        /\ next' = IF r.got = NoneOpt THEN i.map.next ELSE next
        /\ current_height' = IF r.got = NoneOpt THEN i.map.current_height ELSE current_height
    /\ UNCHANGED <<inserted, tower, rnd, sample, rc, bflag, reader, walk>>

Get(k) ==
    /\ Running
    /\ \E r \in {get(Self, k)} :
        /\ fault' = r.fault
        /\ last' = Call("get", k, <<>>, 0, r.got, FALSE)
    /\ UNCHANGED <<key, value, next, current_height, inserted, tower, rnd, sample, rc, bflag,
                   reader, walk>>

Contain(k) ==
    /\ Running
    /\ \E r \in {contain(Self, k)} :
        /\ fault' = r.fault
        /\ last' = Call("contain", k, <<>>, 0, NoneOpt, r.has)
    /\ UNCHANGED <<key, value, next, current_height, inserted, tower, rnd, sample, rc, bflag,
                   reader, walk>>

Next ==
    \/ \E k \in Keys, v \in Values, stream \in SpecStreams : Insert(k, v, stream)
    \/ \E k \in Keys : Get(k)
    \/ \E k \in Keys : Contain(k)

Spec == Init /\ [][Next]_vars

\* ------------------------------------------------------------ properties of Spec
Present == DOMAIN inserted

NumEntries == Cardinality(Entries(Self))

\* The nodes met from the head along the forward slots of one level, in order;
\* a walk longer than the number of entries is cut (it has met a node twice).
RECURSIVE ChainFrom(_, _, _, _)
ChainFrom(m, level, node, acc) ==
    IF node = None \/ Len(acc) > Cardinality(Entries(m)) THEN acc
    ELSE ChainFrom(m, level, m.next[node][level], Append(acc, node))

Chain(m, level) == ChainFrom(m, level, m.next[head][level], <<>>)

\* C1 (round trip): once insert(k, v) has returned, get(k) is Some(v) and
\* contain(k) is true, whatever height was sampled for the entry.
C1_RoundTrip ==
    (last.op = "insert" /\ fault = "none") =>
        /\ get(Self, last.key) = GetResult("none", Some(last.val))
        /\ contain(Self, last.key) = [fault |-> "none", has |-> TRUE]

\* the insert went between two entries, above the base level
C1_Witness ==
    /\ last.op = "insert" /\ fault = "none"
    /\ NumEntries = 3
    /\ last.height = 2
    /\ last.key = <<1, 2>>
    /\ get(Self, last.key).got = Some(last.val)
    /\ contain(Self, last.key).has

\* C2 (uniqueness): an insert of a key that is present is rejected and changes
\* no key, value, forward slot or current_height; get of the key is still the
\* value of the first insert.
C2_DuplicateRejected ==
    [][(last'.op = "insert" /\ last'.key \in Present) =>
            /\ fault' = "duplicate"
            /\ UNCHANGED <<key, value, next, current_height>>
            /\ get(Self', last'.key).got = Some(inserted[last'.key])]_vars

\* a second insert of a key, with another value, into a map of several entries
C2_Witness ==
    /\ last.op = "insert" /\ fault = "duplicate"
    /\ last.key \in Present
    /\ last.val # inserted[last.key]
    /\ NumEntries >= 2
    /\ get(Self, last.key).got = Some(inserted[last.key])

\* C3 (recoverable rejection): after an insert of a key that is present, the
\* caller has control again and can call insert, get and contain on the map.
C3_DuplicateIsRecoverable ==
    (last.op = "insert" /\ fault = "duplicate") => ENABLED Next

\* C4 (the only failure): insert fails exactly when the key is present, with
\* the duplicate rejection; get and contain never fail; no unwrap of None, no
\* index out of range, no underflow and no borrow conflict happens.
C4_OnlyDuplicateFails ==
    [][/\ fault' \in {"none", "duplicate"}
       /\ last'.op = "insert" => (fault' = "duplicate" <=> last'.key \in Present)
       /\ last'.op \in {"get", "contain"} => fault' = "none"]_vars

\* a rejection in a map that has grown to the full height
C4_Witness ==
    /\ fault = "duplicate"
    /\ current_height = MAX_HEIGHT
    /\ NumEntries >= 2

\* C5 (ordering): the level-0 chain from the head visits exactly the keys
\* inserted, each once, in strictly ascending order, and ends at None.
C5_BaseChainOrdered ==
    LET c == Chain(Self, 0) IN
    /\ Len(c) = Cardinality(Present)
    /\ {key[c[i]] : i \in 1 .. Len(c)} = Present
    /\ \A i \in 1 .. Len(c) - 1 : cmp(key[c[i]], key[c[i + 1]]) = "Less"
    /\ next[IF Len(c) = 0 THEN head ELSE c[Len(c)]][0] = None

\* three entries, allocated in an order that is not the key order
C5_Witness ==
    /\ Len(Chain(Self, 0)) = 3
    /\ Chain(Self, 0) # <<1, 2, 3>>
    /\ last.op = "insert" /\ fault = "none"

\* C6 (absence): in every state get of a key never inserted is None and
\* contain of it is false, whatever keys are present and at whichever heights.
C6_Absent ==
    \A k \in Keys \ Present :
        /\ get(Self, k) = GetResult("none", NoneOpt)
        /\ contain(Self, k) = [fault |-> "none", has |-> FALSE]

\* a get of the middle key, with a smaller and a larger key present
C6_Witness ==
    /\ last.op = "get" /\ last.key = <<1, 2>> /\ last.got = NoneOpt
    /\ Present = {<<>>, <<2>>}
    /\ current_height > 1

\* C7 (height bound): current_height starts at 1, stays in 1..MAX_HEIGHT and
\* never decreases, whatever the operation.
C7_HeightBoundedMonotone ==
    /\ current_height = 1
    /\ [](current_height \in 1 .. MAX_HEIGHT)
    /\ [][current_height' >= current_height]_vars

\* an insert of a lower tower into a map at the full height
C7_Witness ==
    /\ current_height = MAX_HEIGHT
    /\ last.op = "insert" /\ fault = "none"
    /\ last.height < MAX_HEIGHT

\* C9 (no side effects): a get or contain leaves current_height and every
\* key, value and forward slot as they were, found or not.
C9_ReadsChangeNothing ==
    [][last'.op \in {"get", "contain"} => UNCHANGED <<key, value, next, current_height>>]_vars

\* a get that finds its key, and a contain that does not
C9_Witness ==
    /\ NumEntries >= 2
    /\ \/ last.op = "get" /\ last.got # NoneOpt
       \/ last.op = "contain" /\ ~last.has

\* the entries whose key is not below k
GreaterOrEq(k) == {n \in Entries(Self) : cmp(k, key[n]) # "Greater"}

\* C11 (descent result): for every target key the first component of
\* find_greater_or_eq is the entry of the smallest key that is not below the
\* target, the entry of the target itself when it is present, and None when
\* every stored key is below the target.
C11_DescentFindsCeiling ==
    \A k \in Keys :
        LET d == find_greater_or_eq(Self, k) IN
        /\ d.fault = "none"
        /\ IF GreaterOrEq(k) = {} THEN d.found = None
           ELSE /\ d.found \in GreaterOrEq(k)
                /\ \A n \in GreaterOrEq(k) : cmp(key[d.found], key[n]) # "Greater"
                /\ k \in Present => key[d.found] = k

\* a lookup of the middle key, absent, lands on the larger entry; a lookup of
\* the largest key lands on it, and the descent starts above the base level
C11_Witness ==
    /\ last.op = "contain" /\ last.key = <<1, 2>>
    /\ Present = {<<>>, <<2>>}
    /\ current_height > 1
    /\ find_greater_or_eq(Self, <<1, 2>>).found \in Entries(Self)
    /\ key[find_greater_or_eq(Self, <<1, 2>>).found] = <<2>>
    /\ key[find_greater_or_eq(Self, <<>>).found] = <<>>

\* the last place of chain c whose key is below k, 0 when there is none
LastLess(c, k) ==
    LET below == {i \in 1 .. Len(c) : cmp(key[c[i]], k) = "Less"} IN
    IF below = {} THEN 0 ELSE CHOOSE i \in below : \A j \in below : j <= i

\* C12 (descent predecessors): for every target key, present or not, and every
\* level below current_height, the predecessor recorded for the level is the
\* last node of that level's chain whose key is below the target, the head when
\* there is none, and its forward slot at the level is None or a node whose key
\* is not below the target.
C12_DescentPredecessors ==
    \A k \in Keys :
        LET prevs == find_greater_or_eq(Self, k).prev_nodes_by_levels IN
        \A l \in 0 .. current_height - 1 :
            LET c == Chain(Self, l)
                i == LastLess(c, k)
            IN /\ prevs[l] = IF i = 0 THEN head ELSE c[i]
               /\ \/ next[prevs[l]][l] = None
                  \/ cmp(k, key[next[prevs[l]][l]]) # "Greater"

\* a descent for the largest key whose predecessors are two different entries
\* at two levels
C12_Witness ==
    /\ last.op = "get" /\ last.key = <<2>>
    /\ current_height >= 2
    /\ LET prevs == find_greater_or_eq(Self, <<2>>).prev_nodes_by_levels IN
        /\ prevs[1] # head
        /\ prevs[0] # head
        /\ prevs[0] # prevs[1]

\* sequence c without node n
Without(c, n) == SelectSeq(c, LAMBDA x : x # n)

\* C13 (splice): an insert that returns, with sampled height h, puts the new
\* node at every level below h right between the predecessor the descent
\* recorded for the level and that predecessor's former successor; the chain of
\* the level is the old chain with the new node added, the old nodes in their
\* old order; no other forward slot changes: none at a level from h up, and none
\* of a node that is not the predecessor of its level.
C13_Splice ==
    [][(last'.op = "insert" /\ fault' = "none") =>
        \A prevs \in {find_greater_or_eq(Self, last'.key).prev_nodes_by_levels} :
        \A new_node \in {NumEntries + 1} :
            /\ DOMAIN next' = DOMAIN next \cup {new_node}
            /\ new_node \notin DOMAIN next
            /\ \A l \in Levels :
                IF l < last'.height
                THEN /\ next'[new_node][l] = next[prevs[l]][l]
                     /\ next'[prevs[l]][l] = new_node
                     /\ \A n \in DOMAIN next \ {prevs[l]} : next'[n][l] = next[n][l]
                     /\ \E i \in 1 .. Len(Chain(Self', l)) : Chain(Self', l)[i] = new_node
                     /\ Without(Chain(Self', l), new_node) = Chain(Self, l)
                ELSE /\ next'[new_node][l] = None
                     /\ \A n \in DOMAIN next : next'[n][l] = next[n][l]]_vars

\* the third entry went between the two others, at the base level and at the
\* level above it
C13_Witness ==
    /\ last.op = "insert" /\ fault = "none"
    /\ last.height = 2
    /\ Chain(Self, 0) = <<1, 3, 2>> \/ Chain(Self, 0) = <<2, 3, 1>>
    /\ Len(Chain(Self, 1)) = 3
    /\ Chain(Self, 1)[2] = 3
    /\ next[3][2] = None

\* C14 (height growth): an insert that returns with a sampled height h
\* above current_height makes current_height exactly h; at each level from the
\* old current_height up to h - 1 the predecessor spliced after is the head, so
\* after it the head's forward slot there is the new node and the new node's is
\* None. With h not above current_height, current_height stays.
C14_HeightGrowth ==
    [][(last'.op = "insert" /\ fault' = "none") =>
        \A prevs \in {find_greater_or_eq(Self, last'.key).prev_nodes_by_levels} :
        \A new_node \in {NumEntries + 1} :
            IF last'.height > current_height
            THEN /\ current_height' = last'.height
                 /\ \A l \in current_height .. last'.height - 1 :
                     /\ ExpandLevels(Self, prevs, last'.height)[l] = head
                     /\ next'[head][l] = new_node
                     /\ next'[new_node][l] = None
            ELSE current_height' = current_height]_vars

\* the map grew from height 2 to MAX_HEIGHT: the head's slot at level 1 still
\* leads to an older entry, its slots from level 2 up lead to the new one
C14_Witness ==
    /\ last.op = "insert" /\ fault = "none"
    /\ last.height = MAX_HEIGHT /\ current_height = MAX_HEIGHT
    /\ NumEntries >= 2
    /\ next[head][1] \notin {None, NumEntries}
    /\ \A l \in 2 .. MAX_HEIGHT - 1 : next[head][l] = NumEntries /\ next[NumEntries][l] = None

\* C15 (upper levels): at every level above the base the chain from the head
\* visits exactly the entries whose sampled height reaches the level, each
\* once: it is the base chain restricted to them, in strictly ascending key
\* order, and it ends at None. No chain of any level meets a node twice.
C15_UpperLevels ==
    /\ \A l \in Levels \ {0} :
        LET c == Chain(Self, l) IN
        /\ {c[i] : i \in 1 .. Len(c)} = {n \in Entries(Self) : tower[n] >= l + 1}
        /\ c = SelectSeq(Chain(Self, 0), LAMBDA n : tower[n] >= l + 1)
        /\ \A i \in 1 .. Len(c) - 1 : cmp(key[c[i]], key[c[i + 1]]) = "Less"
        /\ next[IF Len(c) = 0 THEN head ELSE c[Len(c)]][l] = None
    /\ \A l \in Levels :
        LET c == Chain(Self, l) IN
        /\ Len(c) <= NumEntries
        /\ \A i, j \in 1 .. Len(c) : c[i] = c[j] => i = j

\* three entries of the heights 1, 2 and MAX_HEIGHT, the lowest tower in the
\* middle of the base chain
C15_Witness ==
    /\ NumEntries = 3
    /\ {tower[n] : n \in Entries(Self)} = {1, 2, MAX_HEIGHT}
    /\ tower[Chain(Self, 0)[2]] = 1
    /\ Len(Chain(Self, 1)) = 2
    /\ Len(Chain(Self, 2)) = 1
    /\ last.op = "insert" /\ fault = "none"

\* the largest height sampled for an entry so far, 1 for the empty map
MaxTower ==
    IF Entries(Self) = {} THEN 1
    ELSE CHOOSE h \in {tower[n] : n \in Entries(Self)} :
            \A n \in Entries(Self) : tower[n] <= h

\* C16 (current height): current_height is the largest height sampled over
\* the entries inserted, 1 for the empty map; the head's forward slots at the
\* levels from current_height up are None, and when current_height is above 1
\* the head's slot at the top active level is not None.
C16_CurrentHeightIsMaxTower ==
    /\ DOMAIN tower = Entries(Self)
    /\ current_height = MaxTower
    /\ \A l \in Levels : l >= current_height => next[head][l] = None
    /\ current_height > 1 => next[head][current_height - 1] # None

\* a map that stopped at height 2, the last insert a lower tower
C16_Witness ==
    /\ NumEntries = 3
    /\ current_height = 2
    /\ last.op = "insert" /\ fault = "none" /\ last.height = 1
    /\ next[head][1] # None
    /\ next[head][2] = None

\* the nodes met in the chain of each level
ChainNodes(m) ==
    [l \in Levels |-> LET c == Chain(m, l) IN {c[i] : i \in 1 .. Len(c)}]

\* the levels in whose chain node n is met
LevelsOf(m, n) == LET met == ChainNodes(m) IN {l \in Levels : n \in met[l]}

\* C17 (entries stay): once insert(k, v) has returned, whatever operations
\* follow, get(k) is Some(v), the entry is in the base chain, and the levels in
\* whose chains it is met are exactly those below the height sampled at its
\* creation: in every state an entry is linked at the levels below the height
\* recorded for it, and no step removes an entry or changes its key, its value
\* or the height recorded for it.
C17_EntriesStay ==
    /\ [](/\ \A k \in Present : \E n \in Entries(Self) : key[n] = k
          /\ LET met == ChainNodes(Self) IN
             \A n \in Entries(Self) :
                /\ key[n] \in Present
                /\ value[n] = inserted[key[n]]
                /\ get(Self, key[n]) = GetResult("none", Some(inserted[key[n]]))
                /\ {l \in Levels : n \in met[l]} = 0 .. tower[n] - 1)
    /\ [][\A n \in Entries(Self) :
                /\ n \in Entries(Self')
                /\ key'[n] = key[n]
                /\ value'[n] = value[n]
                /\ inserted'[key[n]] = inserted[key[n]]
                /\ tower'[n] = tower[n]]_vars

\* the first entry, of height 2, read back after two more inserts around it
\* have raised the map to MAX_HEIGHT
C17_Witness ==
    /\ NumEntries = 3
    /\ last.op = "get" /\ last.key = key[1]
    /\ last.got = Some(inserted[key[1]])
    /\ key[1] = <<1, 2>>
    /\ tower[1] = 2
    /\ LevelsOf(Self, 1) = {0, 1}
    /\ current_height = MAX_HEIGHT

\* C18 (head never matched): the head, whose key and value are empty, is
\* never what a descent returns. While the empty key has not been inserted,
\* get of it is None and contain of it is false; an insert of it then returns
\* instead of being rejected as a duplicate, and from then on get of it is Some
\* of the value inserted.
C18_HeadNeverMatched ==
    /\ [](/\ key[head] = <<>>
          /\ \A k \in Keys : find_greater_or_eq(Self, k).found # head
          /\ <<>> \notin Present =>
                /\ get(Self, <<>>) = GetResult("none", NoneOpt)
                /\ contain(Self, <<>>) = [fault |-> "none", has |-> FALSE]
          /\ <<>> \in Present =>
                get(Self, <<>>) = GetResult("none", Some(inserted[<<>>])))
    /\ [][(last'.op = "insert" /\ last'.key = <<>> /\ <<>> \notin Present) =>
            /\ fault' = "none"
            /\ get(Self', <<>>) = GetResult("none", Some(last'.val))]_vars

\* the empty key inserted as the third entry, and read back
C18_Witness ==
    /\ last.op = "insert" /\ last.key = <<>> /\ fault = "none"
    /\ NumEntries = 3
    /\ key[head] = <<>> /\ key[3] = <<>>
    /\ last.val = <<8>>
    /\ get(Self, <<>>).got = Some(<<8>>)
    /\ next[head][0] = 3

\* A second run of the same calls: the first n inserts that returned (entry i
\* holds the key and value of the i-th), every height sampled from the one
\* stream.
RECURSIVE Replay(_, _)
Replay(n, stream) ==
    IF n = 0 THEN new
    ELSE insert(Replay(n - 1, stream), key[n], value[n], stream).map

\* the map that keeps the first value inserted for each key
AbstractGet(k) == IF k \in DOMAIN inserted THEN Some(inserted[k]) ELSE NoneOpt

\* C20 (heights are not observable): in every state the run, whatever
\* heights it sampled, and the run of the same inserts that samples height 1
\* every time give the same result for every next call: get and contain of
\* every key, and whether insert of the key is rejected. Any two runs of the
\* same calls so agree with each other; both agree with the map that keeps the
\* first value inserted for each key, and so did the call just made.
C20_HeightsNotObservable ==
    /\ \A stream \in {LuckyStream(0)} : \A other \in {Replay(NumEntries, stream)} :
        /\ Cardinality(Entries(other)) = NumEntries
        /\ \A k \in Keys :
            \A g \in {get(Self, k)}, i \in {insert(Self, k, <<7>>, stream).fault} :
                /\ g = get(other, k)
                /\ contain(Self, k) = contain(other, k)
                /\ i = insert(other, k, <<7>>, stream).fault
                /\ g = GetResult("none", AbstractGet(k))
                /\ contain(Self, k).has <=> k \in DOMAIN inserted
                /\ i = "duplicate" <=> k \in DOMAIN inserted
    /\ last.op = "get" => last.got = AbstractGet(last.key)
    /\ last.op = "contain" => (last.has <=> last.key \in DOMAIN inserted)

\* three towers of three heights, read after the inserts; the second run with
\* all heights 1 has other forward slots and gives the same answer
C20_Witness ==
    /\ NumEntries = 3
    /\ {tower[n] : n \in Entries(Self)} = {1, 2, MAX_HEIGHT}
    /\ last.op = "get" /\ last.key = <<1, 2>> /\ last.got = Some(inserted[<<1, 2>>])
    /\ Replay(3, LuckyStream(0)).next # next
    /\ Replay(3, LuckyStream(0)).current_height = 1
    /\ get(Replay(3, LuckyStream(0)), <<1, 2>>).got = last.got

\* ------------------------------------------------------------ SpecHeight
\* calculate_random_height on every stream of MAX_HEIGHT draws.
InitHeight ==
    /\ key = new.key
    /\ value = new.value
    /\ next = new.next
    /\ current_height = new.current_height
    /\ fault = "none"
    /\ last = Call("new", <<>>, <<>>, 0, NoneOpt, FALSE)
    /\ inserted = <<>>
    /\ tower = <<>>
    /\ walk = IdleWalk
    /\ rnd \in [1 .. MAX_HEIGHT -> Draws]
    /\ sample = NoSample
    /\ IdleConc

SampleHeight ==
    /\ sample = NoSample
    /\ sample' = calculate_random_height(rnd)
    /\ UNCHANGED <<key, value, next, current_height, fault, last, inserted, tower,
                   rnd, rc, bflag, reader, walk>>

NextHeight == SampleHeight

SpecHeight == InitHeight /\ [][NextHeight]_vars

\* the lucky draws at the front of the stream, from draw i on
RECURSIVE LeadingLucky(_, _)
LeadingLucky(stream, i) ==
    IF i > Len(stream) \/ stream[i] % BRANCH_FACTOR # 0 THEN 0
    ELSE 1 + LeadingLucky(stream, i + 1)

\* C8 (height oracle): for every stream of draws the height is in
\* 1..MAX_HEIGHT: 1 plus the lucky draws before the first unlucky one, cut at
\* MAX_HEIGHT; the draws made are those lucky ones and the unlucky one that
\* stopped them, at most MAX_HEIGHT - 1.
C8_HeightInRange ==
    sample # NoSample =>
        /\ sample.height \in 1 .. MAX_HEIGHT
        /\ sample.height = Min(MAX_HEIGHT, 1 + LeadingLucky(rnd, 1))
        /\ sample.trials = Min(sample.height, MAX_HEIGHT - 1)
        /\ sample.trials <= MAX_HEIGHT - 1

\* every draw was lucky: the loop stopped on the bound
C8_Witness ==
    /\ sample.height = MAX_HEIGHT
    /\ sample.trials = MAX_HEIGHT - 1
    /\ \A i \in 1 .. MAX_HEIGHT : rnd[i] % BRANCH_FACTOR = 0

\* ------------------------------------------------------------ SpecConc
\* Readers that call get on one map with their steps interleaved.  SkipList
\* holds Rc<RefCell<..>> handles, so a get writes: every clone and drop of a
\* handle is a load and a store of the node's strong count (Rc keeps it in a
\* Cell, not an atomic), and every borrow() and its release is a load and a
\* store of the node's borrow flag.  The keys, values and forward slots are
\* only read.
Readers == 1 .. NumReaders

\* the map the readers share: what an insert into a new map leaves, the entry
\* two levels high
ConcMap == insert(new, <<1, 2>>, <<7>>, LuckyStream(1)).map

\* strong counts and borrow flags at rest: the head is held by SkipList.head,
\* an entry by the forward slots that point at it
RestCount(m, node) ==
    IF node = head THEN 1
    ELSE Cardinality({<<n, l>> \in (DOMAIN m.next) \X Levels : m.next[n][l] = node})

RestRc(m) == [node \in DOMAIN m.key |-> RestCount(m, node)]
RestFlag(m) == [node \in DOMAIN m.key |-> 0]

Op(what, node) == <<what, node>>

\* what: "inc" (Rc::clone), "dec" (drop of an Rc), "borrow" (RefCell::borrow),
\* "release" (drop of the Ref)
OnSome(opt, ops) == IF opt = None THEN <<>> ELSE ops

\* line 118-124 and the drop of found_next, after the descent returned found
GetTail(found) ==
    OnSome(found, <<Op("borrow", found), Op("release", found), Op("dec", found)>>)

\* the Vec of predecessors dropped at the end of line 116, slot by slot
RECURSIVE DropPrevs(_, _)
DropPrevs(prevs, l) ==
    IF l \notin DOMAIN prevs THEN <<>>
    ELSE <<Op("dec", prevs[l])>> \o DropPrevs(prevs, l + 1)

\* lines 61-72 as the handle operations they perform, then the rest of get
RECURSIVE DescentOps(_, _, _, _, _)
DescentOps(m, k, level, current_node, prevs) ==
    LET next_node_opt == m.next[current_node][level]
        \* line 62: borrow(), clone of the slot, drop of the Ref
        read == <<Op("borrow", current_node)>>
                \o OnSome(next_node_opt, <<Op("inc", next_node_opt)>>)
                \o <<Op("release", current_node)>>
        \* line 50: borrow() of the next node for the comparison
        compare == OnSome(next_node_opt,
                          <<Op("borrow", next_node_opt), Op("release", next_node_opt)>>)
    IN
    IF less_than_eq(m, k, next_node_opt)
    THEN LET \* line 64: clone of current_node, drop of the slot's old handle
             record == <<Op("inc", current_node), Op("dec", prevs[level])>>
             recorded == [prevs EXCEPT ![level] = current_node]
         IN IF level = 0
            \* line 66: current_node is dropped, the results move to the caller
            THEN read \o compare \o record \o <<Op("dec", current_node)>>
                 \o DropPrevs(recorded, 0) \o GetTail(next_node_opt)
            \* line 69: next_node_opt is dropped
            ELSE read \o compare \o record
                 \o OnSome(next_node_opt, <<Op("dec", next_node_opt)>>)
                 \o DescentOps(m, k, level - 1, current_node, recorded)
    \* line 71: clone of the next node, drop of the old current_node, then of
    \* next_node_opt
    ELSE read \o compare
         \o <<Op("inc", next_node_opt), Op("dec", current_node), Op("dec", next_node_opt)>>
         \o DescentOps(m, k, level, next_node_opt, prevs)

\* line 58: head.clone() and the MAX_HEIGHT - 1 clones vec! makes of it;
\* line 60: head.clone()
GetOps(m, k) ==
    [l \in 1 .. MAX_HEIGHT + 1 |-> Op("inc", head)]
    \o DescentOps(m, k, m.current_height - 1, head, [l \in Levels |-> head])

IdleReader == [pc |-> "idle", key |-> <<>>, ops |-> <<>>, i |-> 0, reg |-> 0, got |-> NoneOpt]

InitConc ==
    /\ key = ConcMap.key
    /\ value = ConcMap.value
    /\ next = ConcMap.next
    /\ current_height = ConcMap.current_height
    /\ fault = "none"
    /\ last = Call("new", <<>>, <<>>, 0, NoneOpt, FALSE)
    /\ inserted = [n \in {} |-> <<>>]
    /\ tower = <<>>
    /\ walk = IdleWalk
    /\ rnd = <<>>
    /\ sample = NoSample
    /\ rc = RestRc(ConcMap)
    /\ bflag = RestFlag(ConcMap)
    /\ reader = [t \in Readers |-> IdleReader]

ConcFrame ==
    UNCHANGED <<key, value, next, current_height, fault, last, inserted, tower, rnd, sample,
                walk>>

\* A reader that has loaded a cell which another reader then stores to holds a
\* stale value ("stale"), and its own store loses the other's update
\* ("raced").  The two accesses are a data race; what the program does after
\* the lost update is not defined (a count that is too low frees a node the
\* map still owns, a flag that is too low makes borrow() panic), and the
\* model follows it no further.
Racing == \E t \in Readers : reader[t].pc \in {"stale", "raced"}

\* a reader calls get(k)
StartGet(t, k) ==
    /\ ~Racing
    /\ reader[t].pc = "idle"
    /\ reader' = [reader EXCEPT ![t] =
            [pc |-> "load", key |-> k, ops |-> GetOps(Self, k), i |-> 1, reg |-> 0,
             got |-> NoneOpt]]
    /\ UNCHANGED <<rc, bflag>>
    /\ ConcFrame

\* the count or flag an operation updates
CellOf(op) == <<IF op[1] \in {"inc", "dec"} THEN "rc" ELSE "bflag", op[2]>>

CellValue(cell) == IF cell[1] = "rc" THEN rc[cell[2]] ELSE bflag[cell[2]]

NextOp(t) == reader[t].ops[reader[t].i]

\* the load of the count or flag the next operation updates
Load(t) ==
    /\ ~Racing
    /\ reader[t].pc = "load"
    /\ reader' = [reader EXCEPT ![t].pc = "store", ![t].reg = CellValue(CellOf(NextOp(t)))]
    /\ UNCHANGED <<rc, bflag>>
    /\ ConcFrame

Stored(what, reg) ==
    IF what \in {"inc", "borrow"} THEN reg + 1 ELSE reg - 1

WriteCell(t) ==
    \E op \in {NextOp(t)} :
        /\ rc' = IF CellOf(op)[1] = "rc"
                 THEN [rc EXCEPT ![op[2]] = Stored(op[1], reader[t].reg)] ELSE rc
        /\ bflag' = IF CellOf(op)[1] = "bflag"
                    THEN [bflag EXCEPT ![op[2]] = Stored(op[1], reader[t].reg)] ELSE bflag

\* the store of the updated count or flag (the loaded value is dead after it);
\* after the last one get returns
Store(t) ==
    /\ ~Racing
    /\ reader[t].pc = "store"
    /\ WriteCell(t)
    /\ reader' = [u \in Readers |->
            IF u = t
            THEN IF reader[t].i < Len(reader[t].ops)
                 THEN [reader[t] EXCEPT !.pc = "load", !.i = @ + 1, !.reg = 0]
                 ELSE [reader[t] EXCEPT !.pc = "done", !.reg = 0,
                                        !.got = get(Self, reader[t].key).got]
            ELSE IF reader[u].pc = "store" /\ CellOf(NextOp(u)) = CellOf(NextOp(t))
                 THEN [reader[u] EXCEPT !.pc = "stale"]
                 ELSE reader[u]]
    /\ ConcFrame

\* the store of a value computed from a stale load
StoreStale(t) ==
    /\ reader[t].pc = "stale"
    /\ WriteCell(t)
    /\ reader' = [reader EXCEPT ![t].pc = "raced"]
    /\ ConcFrame

NextConc ==
    \/ \E t \in Readers, k \in Keys : StartGet(t, k)
    \/ \E t \in Readers : Load(t)
    \/ \E t \in Readers : Store(t)
    \/ \E t \in Readers : StoreStale(t)

SpecConc == InitConc /\ [][NextConc]_vars

AllReturned == \A t \in Readers : reader[t].pc = "done"

\* the operations a reader has completed
Completed(t) ==
    IF reader[t].pc \in {"done", "raced"} THEN reader[t].i ELSE reader[t].i - 1

\* the handles (up = "inc", down = "dec") or borrows (up = "borrow", down =
\* "release") of a node that a reader holds after the operations it completed
Held(t, up, down, node) ==
    Cardinality({j \in 1 .. Completed(t) : reader[t].ops[j] = Op(up, node)})
    - Cardinality({j \in 1 .. Completed(t) : reader[t].ops[j] = Op(down, node)})

RECURSIVE SumHeld(_, _, _, _)
SumHeld(ts, up, down, node) ==
    IF ts = {} THEN 0
    ELSE LET t == CHOOSE u \in ts : TRUE
         IN Held(t, up, down, node) + SumHeld(ts \ {t}, up, down, node)

\* C10 (concurrent reads): when gets run interleaved, the nodes' reference
\* counts and borrow flags stay true to the handles and borrows that exist
\* (the map's own and the readers'), they are left as they were when all gets
\* have returned, and each get returns what it returns alone.
C10_ConcurrentReadsSafe ==
    /\ \A node \in DOMAIN rc :
        /\ rc[node] = RestCount(Self, node) + SumHeld(Readers, "inc", "dec", node)
        /\ bflag[node] = SumHeld(Readers, "borrow", "release", node)
    /\ AllReturned =>
        /\ rc = RestRc(Self)
        /\ bflag = RestFlag(Self)
        /\ \A t \in Readers : reader[t].got = get(Self, reader[t].key).got

\* ------------------------------------------------------------ SpecLoops
\* The two loops without a bound of their own, one iteration a step: the
\* descent of lines 61-72 and the sampling of lines 77-82, on the maps that
\* insert builds. The thread that entered a loop keeps running it.
LoopTargets == Keys \cup {<<3>>}

StartDescent(k) ==
    /\ Running
    /\ walk.pc = "idle"
    /\ walk' = IF current_height < 1 THEN [IdleWalk EXCEPT !.pc = "panicked"]
               ELSE [IdleWalk EXCEPT !.pc = "descend", !.key = k,
                                     !.level = current_height - 1]
    /\ UNCHANGED <<key, value, next, current_height, fault, last, inserted, tower,
                   rnd, sample, rc, bflag, reader>>

\* line 69 left out: the walk records the predecessor and stays at its level
DescendStep_no_drop(m, w) ==
    IF w.level \notin DOMAIN m.next[w.current_node] THEN [w EXCEPT !.pc = "panicked"]
    ELSE LET next_node_opt == m.next[w.current_node][w.level] IN
         IF less_than_eq(m, w.key, next_node_opt)
         THEN IF w.level = 0
              THEN [w EXCEPT !.pc = "returned", !.found = next_node_opt,
                             !.prev_nodes_by_levels[w.level] = w.current_node,
                             !.steps = @ + 1]
              ELSE [w EXCEPT !.prev_nodes_by_levels[w.level] = w.current_node,
                             !.steps = @ + 1]
         ELSE IF next_node_opt = None THEN [w EXCEPT !.pc = "panicked"]
         ELSE [w EXCEPT !.current_node = next_node_opt, !.steps = @ + 1]

\* one iteration of lines 61-72: return at level 0, drop a level, or advance
DescendStep(m, w) ==
    IF w.level \notin DOMAIN m.next[w.current_node] THEN [w EXCEPT !.pc = "panicked"]
    ELSE LET next_node_opt == m.next[w.current_node][w.level] IN
         IF less_than_eq(m, w.key, next_node_opt)
         THEN IF w.level = 0
              THEN [w EXCEPT !.pc = "returned", !.found = next_node_opt,
                             !.prev_nodes_by_levels[w.level] = w.current_node,
                             !.steps = @ + 1]
              ELSE [w EXCEPT !.prev_nodes_by_levels[w.level] = w.current_node,
                             !.level = @ - 1, !.steps = @ + 1]
         ELSE IF next_node_opt = None THEN [w EXCEPT !.pc = "panicked"]
         ELSE [w EXCEPT !.current_node = next_node_opt, !.steps = @ + 1]

DescentIter ==
    /\ walk.pc = "descend"
    /\ walk.steps < Fuel(Self)
    /\ walk' = DescendStep(Self, walk)
    /\ UNCHANGED <<key, value, next, current_height, fault, last, inserted, tower,
                   rnd, sample, rc, bflag, reader>>

StartSample(stream) ==
    /\ Running
    /\ walk.pc = "idle"
    /\ walk' = [IdleWalk EXCEPT !.pc = "sample", !.stream = stream, !.height = 1]
    /\ UNCHANGED <<key, value, next, current_height, fault, last, inserted, tower,
                   rnd, sample, rc, bflag, reader>>

\* one iteration of lines 77-82: break at MAX_HEIGHT or on an unlucky draw
SampleStep(w) ==
    IF w.height >= MAX_HEIGHT THEN [w EXCEPT !.pc = "sampled"]
    ELSE IF w.stream[w.trials + 1] % BRANCH_FACTOR # 0
         THEN [w EXCEPT !.pc = "sampled", !.trials = @ + 1]
         ELSE [w EXCEPT !.height = @ + 1, !.trials = @ + 1]

SampleIter ==
    /\ walk.pc = "sample"
    /\ walk' = SampleStep(walk)
    /\ UNCHANGED <<key, value, next, current_height, fault, last, inserted, tower,
                   rnd, sample, rc, bflag, reader>>

\* the loop has returned to the operation that ran it
LeaveLoop ==
    /\ walk.pc \in {"returned", "sampled"}
    /\ walk' = IdleWalk
    /\ UNCHANGED <<key, value, next, current_height, fault, last, inserted, tower,
                   rnd, sample, rc, bflag, reader>>

NextLoops ==
    \/ \E k \in Keys, v \in Values, stream \in SpecStreams :
        walk.pc = "idle" /\ Insert(k, v, stream)
    \/ \E k \in LoopTargets : StartDescent(k)
    \/ DescentIter
    \/ \E stream \in SpecStreams : StartSample(stream)
    \/ SampleIter
    \/ LeaveLoop

SpecLoops ==
    Init /\ [][NextLoops]_vars /\ WF_vars(DescentIter) /\ WF_vars(SampleIter)

\* C19 (termination): every descent that starts returns, after at most as
\* many iterations as there are entries plus current_height (one per entry it
\* advances over, one per level it leaves or returns from), and returns what
\* find_greater_or_eq computes; every sampling that starts ends, at a height of
\* at most MAX_HEIGHT after at most MAX_HEIGHT - 1 draws, with what
\* calculate_random_height computes.
C19_LoopsTerminate ==
    /\ [](walk.pc # "panicked")
    /\ [](walk.pc \in {"descend", "returned"} => walk.steps <= NumEntries + current_height)
    /\ [](walk.pc = "returned" =>
            find_greater_or_eq(Self, walk.key) =
                Descent("none", walk.found, walk.prev_nodes_by_levels, walk.steps))
    /\ [](walk.pc \in {"sample", "sampled"} =>
            walk.height <= MAX_HEIGHT /\ walk.trials <= MAX_HEIGHT - 1)
    /\ [](walk.pc = "sampled" =>
            calculate_random_height(walk.stream) =
                [height |-> walk.height, trials |-> walk.trials])
    /\ (walk.pc = "descend") ~> (walk.pc = "returned")
    /\ (walk.pc = "sample") ~> (walk.pc = "sampled")

\* a descent for a key above every entry, in a map of three entries grown to
\* MAX_HEIGHT: it has used every iteration the bound allows
C19_Witness ==
    /\ walk.pc = "returned"
    /\ walk.key = <<3>>
    /\ NumEntries = 3
    /\ current_height = MAX_HEIGHT
    /\ walk.steps = NumEntries + current_height
    /\ walk.found = None

====
